---- MODULE Spec2Model ----
(***************************************************************************)
(* Model of ironfish-rust: the Sapling parameter store (src/lib.rs) and    *)
(* the CreateAssetNote commitment (src/proofs/notes/create_asset_note.rs). *)
(*                                                                         *)
(* The curve arithmetic of the jubjub / bls12_381 crates is kept in its    *)
(* structure (twisted Edwards curve with a = -1, cofactor 8, prime-order   *)
(* subgroup, extended coordinates, wide reduction, windowed Pedersen hash) *)
(* over a field small enough to enumerate.                                 *)
(***************************************************************************)
EXTENDS Integers, Sequences, FiniteSets, TLC

(***************************************************************************)
(* Bounds of the model.                                                    *)
(***************************************************************************)
MaxLoads == 2
MaxNotes == 2
MaxNameLen == 1
AddressLen == 1

(***************************************************************************)
(* Base field of the embedded curve (bls12_381::Scalar), the order of its  *)
(* prime-order subgroup (jubjub::Fr) and the Edwards d coefficient.        *)
(***************************************************************************)
FqModulus == 53
FrModulus == 7
EDWARDS_D == 3

Fq == 0..(FqModulus - 1)
Fr == 0..(FrModulus - 1)

FqAdd(x, y) == (x + y) % FqModulus
FqSub(x, y) == (x - y + FqModulus) % FqModulus
FqMul(x, y) == (x * y) % FqModulus
FqInvert(x) == CHOOSE y \in Fq : FqMul(x, y) = 1

FrAdd(x, y) == (x + y) % FrModulus
FrNeg(x) == (FrModulus - x) % FrModulus
FrDouble(x) == (2 * x) % FrModulus

(***************************************************************************)
(* jubjub::ExtendedPoint, coordinates (U : V : Z : T) with u = U/Z,        *)
(* v = V/Z and T = U*V/Z.  A SubgroupPoint is an ExtendedPoint of the      *)
(* prime-order subgroup; ExtendedPoint::from only unwraps it.              *)
(***************************************************************************)
ExtendedPoint(u, v, z, t) == [u |-> u, v |-> v, z |-> z, t |-> t]

Identity == ExtendedPoint(0, 1, 1, 0)

\* ExtendedPoint + ExtendedPoint (add-2008-hwcd-3 for a = -1).
PointAdd(p, q) ==
    LET a == FqMul(FqSub(p.v, p.u), FqSub(q.v, q.u))
        b == FqMul(FqAdd(p.v, p.u), FqAdd(q.v, q.u))
        c == FqMul(FqMul(p.t, q.t), FqMul(2, EDWARDS_D))
        d == FqMul(FqMul(p.z, q.z), 2)
        cu == FqSub(b, a)
        cv == FqAdd(b, a)
        cz == FqAdd(d, c)
        ct == FqSub(d, c)
    IN  ExtendedPoint(FqMul(cu, ct), FqMul(cv, cz), FqMul(cz, ct), FqMul(cu, cv))

\* point * scalar, by double-and-add over the bits of the scalar.
RECURSIVE PointMul(_, _)
PointMul(p, k) ==
    IF k = 0 THEN Identity
    ELSE LET half == PointMul(p, k \div 2)
             dbl == PointAdd(half, half)
         IN  IF k % 2 = 1 THEN PointAdd(dbl, p) ELSE dbl

\* to_affine that takes U and V as they are.
to_affine_unscaled(p) == [u |-> p.u, v |-> p.v]

\* ExtendedPoint::to_affine: divide by Z.
to_affine(p) ==
    LET zinv == FqInvert(p.z)
    IN  [u |-> FqMul(p.u, zinv), v |-> FqMul(p.v, zinv)]

\* AffinePoint::get_u
get_u(a) == a.u

SubgroupPoint(u, v) == ExtendedPoint(u, v, 1, FqMul(u, v))

(***************************************************************************)
(* Constants of zcash_primitives used by the note.                         *)
(***************************************************************************)
\* b"096b36a5804bfacef1691e173c366a47ff5ba84a44f26ddd7e8d9f79d5b42df0"
GH_FIRST_BLOCK ==
    << 48, 57, 54, 98, 51, 54, 97, 53, 56, 48, 52, 98, 102, 97, 99, 101,
       102, 49, 54, 57, 49, 101, 49, 55, 51, 99, 51, 54, 54, 97, 52, 55,
       102, 102, 53, 98, 97, 56, 52, 97, 52, 52, 102, 50, 54, 100, 100, 100,
       55, 101, 56, 100, 57, 102, 55, 57, 100, 53, 98, 52, 50, 100, 102, 48 >>

NOTE_COMMITMENT_RANDOMNESS_GENERATOR == SubgroupPoint(13, 12)

PEDERSEN_HASH_GENERATORS ==
    << SubgroupPoint(4, 43), SubgroupPoint(47, 49), SubgroupPoint(40, 12),
       SubgroupPoint(6, 49), SubgroupPoint(49, 43), SubgroupPoint(4, 43) >>

PEDERSEN_HASH_CHUNKS_PER_GENERATOR == 63

\* Personalization::NoteCommitment.get_bits()
NoteCommitmentPersonalization == << TRUE, TRUE, TRUE, TRUE, TRUE, TRUE >>

(***************************************************************************)
(* sapling::pedersen_hash::pedersen_hash(personalization, bits)            *)
(***************************************************************************)
BitAt(bits, i) == IF i <= Len(bits) THEN bits[i] ELSE FALSE

\* cur of the loop at chunk j of a segment: 1 doubled four times per chunk,
\* that is 16^j, by square-and-multiply.
RECURSIVE FrPow(_, _)
FrPow(b, e) ==
    IF e = 0 THEN 1
    ELSE LET h == FrPow(b, e \div 2)
         IN  IF e % 2 = 1 THEN (h * h * b) % FrModulus ELSE (h * h) % FrModulus

ChunkWeight(j) == FrPow(16, j)

\* tmp of the loop for the chunk of three bits at pos: (1 + a + 2b) * cur,
\* negated when the third bit is set; missing bits read as false.
ChunkScalar(bits, pos, cur) ==
    LET a == BitAt(bits, pos)
        b == BitAt(bits, pos + 1)
        c == BitAt(bits, pos + 2)
        t1 == IF a THEN FrAdd(cur, cur) ELSE cur
        t2 == IF b THEN FrAdd(t1, FrDouble(cur)) ELSE t1
    IN  IF c THEN FrNeg(t2) ELSE t2

\* acc of the inner loop over the chunks lo..hi of the segment that starts at
\* bit start (the sum is split in halves to keep the evaluation shallow).
RECURSIVE SegmentScalar(_, _, _, _)
SegmentScalar(bits, start, lo, hi) ==
    IF lo > hi THEN 0
    ELSE IF lo = hi THEN ChunkScalar(bits, start + 3 * lo, ChunkWeight(lo))
    ELSE LET mid == (lo + hi) \div 2
         IN  FrAdd(SegmentScalar(bits, start, lo, mid), SegmentScalar(bits, start, mid + 1, hi))

\* Index of the last chunk of the segment at start: the loop stops after
\* PEDERSEN_HASH_CHUNKS_PER_GENERATOR chunks or when the bits run out.
LastChunk(bits, start) ==
    LET left == (Len(bits) - start + 1 + 2) \div 3
    IN  (IF left < PEDERSEN_HASH_CHUNKS_PER_GENERATOR THEN left
         ELSE PEDERSEN_HASH_CHUNKS_PER_GENERATOR) - 1

\* The outer loop: one generator per segment, until no bits are left.
RECURSIVE PedersenSegments(_, _, _)
PedersenSegments(bits, start, gen) ==
    IF start > Len(bits) THEN Identity
    ELSE PointAdd(PointMul(PEDERSEN_HASH_GENERATORS[gen],
                           SegmentScalar(bits, start, 0, LastChunk(bits, start))),
                  PedersenSegments(bits, start + 3 * PEDERSEN_HASH_CHUNKS_PER_GENERATOR, gen + 1))

pedersen_hash(personalization, bits) ==
    PedersenSegments(personalization \o bits, 1, 1)

(***************************************************************************)
(* jubjub::Fr::from_bytes_wide: the 64 bytes read as a little-endian       *)
(* integer, reduced into the field.                                        *)
(***************************************************************************)
BUFFER_LEN == 64

\* Sum of bytes[i] * 256^(i-1) over lo..hi, in the field.
RECURSIVE WideReduce(_, _, _)
WideReduce(bytes, lo, hi) ==
    IF lo > hi THEN 0
    ELSE IF lo = hi THEN (bytes[lo] * FrPow(256 % FrModulus, lo - 1)) % FrModulus
    ELSE LET mid == (lo + hi) \div 2
         IN  FrAdd(WideReduce(bytes, lo, mid), WideReduce(bytes, mid + 1, hi))

from_bytes_wide(bytes) == WideReduce(bytes, 1, Len(bytes))

(***************************************************************************)
(* The byte -> bits expansion of commitment_full_point:                    *)
(* flat_map(|byte| (0..8).map(move |i| ((byte >> i) & 1) == 1))            *)
(***************************************************************************)
\* The expansion of a byte, most significant bit first.
ByteBitsMsbFirst(byte) == [i \in 1..8 |-> ((byte \div (2 ^ (8 - i))) % 2) = 1]

\* (0..8).map(move |i| ((byte >> i) & 1) == 1)
ByteBits(byte) == [i \in 1..8 |-> ((byte \div (2 ^ (i - 1))) % 2) = 1]

\* flat_map: the expansions of the bytes, one after the other.
FlatMapBits(bytes) ==
    [k \in 1..(8 * Len(bytes)) |-> ByteBits(bytes[((k - 1) \div 8) + 1])[((k - 1) % 8) + 1]]

(***************************************************************************)
(* AssetInfo (crate::primitives::asset_type): a name, the owner's public   *)
(* address as a fixed number of bytes, and a one-byte nonce.               *)
(***************************************************************************)
NameBytes == {71}
AddressBytes == {7, 200}
Nonces == {0, 1}

Names == UNION {[1..n -> NameBytes] : n \in 0..MaxNameLen}
Addresses == [1..AddressLen -> AddressBytes]

AssetInfo == [name : Names, public_address : Addresses, nonce : Nonces]

name(asset_info) == asset_info.name
public_address_bytes(asset_info) == asset_info.public_address
nonce(asset_info) == asset_info.nonce

(***************************************************************************)
(* CreateAssetNote                                                         *)
(***************************************************************************)
\* thread_rng().fill(&mut buffer[..]): the outputs of the generator that the
\* model draws from, each a full 64-byte buffer.
Buffer(lo, hi) == [i \in 1..BUFFER_LEN |-> IF i = 1 THEN lo ELSE IF i = BUFFER_LEN THEN hi ELSE 0]

RngOutputs == {Buffer(0, 0), Buffer(1, 0), Buffer(255, 255)}

\* The assets and generator outputs of the threaded specification.
ConcInfos == {a \in AssetInfo : a.name = << >> /\ a.nonce = 0 /\ \A i \in 1..AddressLen : a.public_address[i] = 7}
ConcRng == {Buffer(0, 0), Buffer(1, 0)}

\* Two assets that differ in the nonce only.
RngInfos == {a \in AssetInfo : a.name = << >> /\ \A i \in 1..AddressLen : a.public_address[i] = 7}

\* new with the nonce of the asset mixed into the randomness.
new_from_metadata(asset_info, buffer) ==
    [asset_info |-> asset_info,
     randomness |-> FrAdd(from_bytes_wide(buffer), nonce(asset_info))]

\* CreateAssetNote::new, given the buffer the generator filled.
new(asset_info, buffer) ==
    [asset_info |-> asset_info, randomness |-> from_bytes_wide(buffer)]

\* The plaintext without the nonce byte.
plaintext_without_nonce(note) ==
    GH_FIRST_BLOCK \o name(note.asset_info) \o public_address_bytes(note.asset_info)

\* The plaintext of commitment_full_point.
create_commitment_plaintext(note) ==
    GH_FIRST_BLOCK \o name(note.asset_info) \o public_address_bytes(note.asset_info)
        \o << nonce(note.asset_info) >>

\* commitment_full_point without the blinding term.
full_point_unblinded(note) ==
    pedersen_hash(NoteCommitmentPersonalization,
                  FlatMapBits(create_commitment_plaintext(note)))

\* CreateAssetNote::commitment_full_point
commitment_full_point(note) ==
    LET create_commitment_hash ==
            pedersen_hash(NoteCommitmentPersonalization,
                          FlatMapBits(create_commitment_plaintext(note)))
    IN  PointAdd(create_commitment_hash,
                 PointMul(NOTE_COMMITMENT_RANDOMNESS_GENERATOR, note.randomness))

\* CreateAssetNote::commitment_point
commitment_point(note) == get_u(to_affine(commitment_full_point(note)))

(***************************************************************************)
(* Sapling                                                                 *)
(***************************************************************************)
Kinds == << "spend", "receipt", "create_asset", "mint_asset" >>

KindSet == {Kinds[i] : i \in 1..Len(Kinds)}

\* Encodings of group elements in a parameter file: 0 encodes the point at
\* infinity, an encoding of 100 or more is not a point of the curve.
OnCurve(e) == e < 100

\* groth16::Parameters::read(reader, checked): a verifying key followed by
\* the proving tables.  Reading fails on a short input and on a point at
\* infinity, and, when checked, on an element that is not on the curve.
ParametersRead(bytes, checked) ==
    IF Len(bytes) < 2 THEN [ok |-> FALSE]
    ELSE IF bytes[1] = 0 \/ bytes[2] = 0 THEN [ok |-> FALSE]
    ELSE IF checked /\ (~OnCurve(bytes[1]) \/ ~OnCurve(bytes[2])) THEN [ok |-> FALSE]
    ELSE [ok |-> TRUE, value |-> [vk |-> [alpha_g1 |-> bytes[1]], h |-> bytes[2]]]

\* load_params that falls back to empty parameters when the read fails.
load_params_or_default(bytes) ==
    IF ParametersRead(bytes, FALSE).ok THEN ParametersRead(bytes, FALSE)
    ELSE [ok |-> TRUE, value |-> [vk |-> [alpha_g1 |-> 0], h |-> 0]]

\* Sapling::load_params, before the unwrap.
load_params(bytes) == ParametersRead(bytes, FALSE)

\* groth16::prepare_verifying_key
prepare_verifying_key(vk) ==
    [alpha_g1_beta_g2 |-> vk.alpha_g1 * vk.alpha_g1, neg_gamma_g2 |-> 0 - vk.alpha_g1]

\* The contents a parameter file of the i-th kind may have at build time:
\* well formed, truncated, holding a point at infinity, holding an element
\* that is not on the curve.
EmbeddedFiles(i) ==
    { << 10 + i, 20 + i >>, << 10 + i >>, << 0, 20 + i >>, << 100 + i, 20 + i >> }

\* Sapling with the create-asset and mint-asset keys in each other's field.
SaplingCrossed(params, vk) ==
    [ spend_verifying_key |-> vk[1],
      receipt_verifying_key |-> vk[2],
      create_asset_verifying_key |-> vk[4],
      mint_asset_verifying_key |-> vk[3],
      spend_params |-> params[1],
      receipt_params |-> params[2],
      create_asset_params |-> params[3],
      mint_asset_params |-> params[4] ]

\* The struct literal that ends Sapling::load.
Sapling(params, vk) ==
    [ spend_verifying_key |-> vk[1],
      receipt_verifying_key |-> vk[2],
      create_asset_verifying_key |-> vk[3],
      mint_asset_verifying_key |-> vk[4],
      spend_params |-> params[1],
      receipt_params |-> params[2],
      create_asset_params |-> params[3],
      mint_asset_params |-> params[4] ]

(***************************************************************************)
(* State                                                                   *)
(***************************************************************************)
VARIABLES
    blobs,      \* the four embedded parameter files, by kind
    stores,     \* the Sapling values constructed so far, in order
    loadCalls,  \* number of calls of Sapling::load begun
    pc,         \* per thread: the place it is at
    frame,      \* per thread: the locals of the call it is in
    notes,      \* the CreateAssetNote values constructed so far
    drawn,      \* for each note, the buffer the generator filled for it
    results     \* for each note, the values commitment_point returned

vars == << blobs, stores, loadCalls, pc, frame, notes, drawn, results >>

Threads == {"t1", "t2"}
MainThread == {"t1"}

NoFrame == [op |-> "none"]

storeVars == << blobs, stores, loadCalls >>
noteVars == << notes, drawn, results >>

InitWith(files, threads) ==
    /\ blobs \in files
    /\ stores = << >>
    /\ loadCalls = 0
    /\ pc = [t \in threads |-> "idle"]
    /\ frame = [t \in threads |-> NoFrame]
    /\ notes = << >>
    /\ drawn = << >>
    /\ results = << >>

KindIndex(k) == CHOOSE i \in 1..Len(Kinds) : Kinds[i] = k

WellFormed(i) == << 10 + i, 20 + i >>

\* Every combination of contents of the four files.
AllFiles ==
    { [k \in KindSet |-> s[KindIndex(k)]] :
        s \in EmbeddedFiles(1) \X EmbeddedFiles(2) \X EmbeddedFiles(3) \X EmbeddedFiles(4) }

\* Four well-formed files, or the same with a truncated create-asset file.
SomeFiles ==
    { [k \in KindSet |-> WellFormed(KindIndex(k))],
      [k \in KindSet |-> IF k = "create_asset" THEN << 13 >> ELSE WellFormed(KindIndex(k))] }

(***************************************************************************)
(* Sapling::load, one thread at a time through its statements.             *)
(***************************************************************************)
\* lib.rs 64-70: the call, and the four include_bytes!.
LoadCall(t) ==
    /\ pc[t] = "idle"
    /\ loadCalls < MaxLoads
    /\ loadCalls' = loadCalls + 1
    /\ pc' = [pc EXCEPT ![t] = "load_params"]
    /\ frame' = [frame EXCEPT ![t] = [op |-> "load", bytes |-> blobs, params |-> << >>]]
    /\ UNCHANGED << blobs, stores, noteVars >>

\* lib.rs 72-75: the next load_params(..) with its unwrap; a failed read
\* panics and the call never returns.
LoadParams(t) ==
    /\ pc[t] = "load_params"
    /\ LET k == Len(frame[t].params) + 1
           read == load_params(frame[t].bytes[Kinds[k]])
       IN  IF read.ok
           THEN /\ frame' = [frame EXCEPT ![t].params = Append(@, read.value)]
                /\ pc' = [pc EXCEPT ![t] = IF k = Len(Kinds) THEN "prepare" ELSE "load_params"]
           ELSE /\ frame' = [frame EXCEPT ![t] = NoFrame]
                /\ pc' = [pc EXCEPT ![t] = "panicked"]
    /\ UNCHANGED << storeVars, noteVars >>

\* lib.rs 77-80: the four prepare_verifying_key(..).
PrepareKeys(t) ==
    /\ pc[t] = "prepare"
    /\ frame' = [frame EXCEPT ![t] =
                    [op |-> "load", params |-> @.params,
                     vk |-> [i \in 1..Len(Kinds) |-> prepare_verifying_key(@.params[i].vk)]]]
    /\ pc' = [pc EXCEPT ![t] = "construct"]
    /\ UNCHANGED << storeVars, noteVars >>

\* Construct behind a write-once holder: a second load returns nothing new.
ConstructOnce(t) ==
    /\ pc[t] = "construct"
    /\ stores' = IF stores = << >>
                 THEN Append(stores, Sapling(frame[t].params, frame[t].vk))
                 ELSE stores
    /\ pc' = [pc EXCEPT ![t] = "idle"]
    /\ frame' = [frame EXCEPT ![t] = NoFrame]
    /\ UNCHANGED << blobs, loadCalls, noteVars >>

\* lib.rs 82-91: the struct literal, returned to the caller.
Construct(t) ==
    /\ pc[t] = "construct"
    /\ stores' = Append(stores, Sapling(frame[t].params, frame[t].vk))
    /\ pc' = [pc EXCEPT ![t] = "idle"]
    /\ frame' = [frame EXCEPT ![t] = NoFrame]
    /\ UNCHANGED << blobs, loadCalls, noteVars >>

(***************************************************************************)
(* CreateAssetNote                                                         *)
(***************************************************************************)
\* New that reuses the slot of the first note once there is one.
NewInPlace(t, infos, rng, limit) ==
    /\ pc[t] = "idle"
    /\ Len(notes) < limit
    /\ \E asset_info \in infos, buffer \in rng :
          IF notes = << >>
          THEN /\ notes' = Append(notes, new(asset_info, buffer))
               /\ drawn' = Append(drawn, buffer)
               /\ results' = Append(results, {})
          ELSE /\ notes' = Append([notes EXCEPT ![1] = new(asset_info, buffer)], notes[1])
               /\ drawn' = Append([drawn EXCEPT ![1] = buffer], drawn[1])
               /\ results' = Append(results, {})
    /\ UNCHANGED << storeVars, pc, frame >>

\* create_asset_note.rs 31-41: one more note, while fewer than limit exist.
New(t, infos, rng, limit) ==
    /\ pc[t] = "idle"
    /\ Len(notes) < limit
    /\ \E asset_info \in infos, buffer \in rng :
          /\ notes' = Append(notes, new(asset_info, buffer))
          /\ drawn' = Append(drawn, buffer)
    /\ results' = Append(results, {})
    /\ UNCHANGED << storeVars, pc, frame >>

\* create_asset_note.rs 43-44, 51-66: commitment_point is entered on note n
\* and commitment_full_point runs to its result.
FullPoint(t, n) ==
    /\ pc[t] = "idle"
    /\ LET plaintext == create_commitment_plaintext(notes[n])
       IN  frame' = [frame EXCEPT ![t] =
                        [op |-> "commitment_point", note |-> n,
                         plaintext |-> plaintext,
                         bits |-> FlatMapBits(plaintext),
                         point |-> commitment_full_point(notes[n])]]
    /\ pc' = [pc EXCEPT ![t] = "to_affine"]
    /\ UNCHANGED << storeVars, noteVars >>

\* ToAffine that clears the note's randomness once it has been used.
ToAffineZeroize(t) ==
    /\ pc[t] = "to_affine"
    /\ results' = [results EXCEPT ![frame[t].note] = @ \cup {get_u(to_affine(frame[t].point))}]
    /\ notes' = [notes EXCEPT ![frame[t].note].randomness = 0]
    /\ pc' = [pc EXCEPT ![t] = "idle"]
    /\ frame' = [frame EXCEPT ![t] = NoFrame]
    /\ UNCHANGED << storeVars, drawn >>

\* create_asset_note.rs 44-46: ExtendedPoint::from(..).to_affine().get_u()
ToAffine(t) ==
    /\ pc[t] = "to_affine"
    /\ results' = [results EXCEPT ![frame[t].note] = @ \cup {get_u(to_affine(frame[t].point))}]
    /\ pc' = [pc EXCEPT ![t] = "idle"]
    /\ frame' = [frame EXCEPT ![t] = NoFrame]
    /\ UNCHANGED << storeVars, notes, drawn >>

(***************************************************************************)
(* Specifications                                                          *)
(***************************************************************************)
\* Threads that load the store and make notes side by side.
Init == InitWith(SomeFiles, Threads)

Next ==
    \/ \E t \in Threads : LoadCall(t)
    \/ \E t \in Threads : LoadParams(t)
    \/ \E t \in Threads : PrepareKeys(t)
    \/ \E t \in Threads : Construct(t)
    \/ \E t \in Threads : New(t, ConcInfos, ConcRng, MaxNotes)
    \/ \E t \in Threads : \E n \in 1..Len(notes) : FullPoint(t, n)
    \/ \E t \in Threads : ToAffine(t)

Spec == Init /\ [][Next]_vars

\* The store alone, over every combination of parameter files.
InitStore == InitWith(AllFiles, Threads)

NextStore ==
    \/ \E t \in Threads : LoadCall(t)
    \/ \E t \in Threads : LoadParams(t)
    \/ \E t \in Threads : PrepareKeys(t)
    \/ \E t \in Threads : Construct(t)

SpecStore == InitStore /\ [][NextStore]_vars

\* Notes alone, one thread: two assets, every generator output.
InitNote == InitWith({[k \in KindSet |-> WellFormed(KindIndex(k))]}, MainThread)

NextNote ==
    \/ \E t \in MainThread : New(t, RngInfos, RngOutputs, MaxNotes)
    \/ \E t \in MainThread : \E n \in 1..Len(notes) : FullPoint(t, n)
    \/ \E t \in MainThread : ToAffine(t)

SpecNote == InitNote /\ [][NextNote]_vars

\* Pairs of notes, one thread: every asset, one generator output.
NextBinding ==
    \/ \E t \in MainThread : New(t, AssetInfo, {Buffer(1, 0)}, 2)
    \/ \E t \in MainThread : \E n \in 1..Len(notes) : FullPoint(t, n)
    \/ \E t \in MainThread : ToAffine(t)

SpecBinding == InitNote /\ [][NextBinding]_vars

(***************************************************************************)
(* Reference definitions for the properties: the affine group law of the   *)
(* curve, the value of a little-endian byte string, the fields of a store  *)
(* by kind.                                                                *)
(***************************************************************************)
EdwardsAdd(p, q) ==
    LET x == FqMul(EDWARDS_D, FqMul(FqMul(p.u, q.u), FqMul(p.v, q.v)))
    IN  [u |-> FqMul(FqAdd(FqMul(p.u, q.v), FqMul(p.v, q.u)), FqInvert(FqAdd(1, x))),
         v |-> FqMul(FqAdd(FqMul(p.v, q.v), FqMul(p.u, q.u)), FqInvert(FqSub(1, x)))]

RECURSIVE EdwardsMul(_, _)
EdwardsMul(p, k) ==
    IF k = 0 THEN [u |-> 0, v |-> 1] ELSE EdwardsAdd(EdwardsMul(p, k - 1), p)

Affine(p) == [u |-> FqMul(p.u, FqInvert(p.z)), v |-> FqMul(p.v, FqInvert(p.z))]

RECURSIVE LittleEndianMod(_, _, _)
LittleEndianMod(bytes, i, m) ==
    IF i > Len(bytes) THEN 0 ELSE (bytes[i] + 256 * LittleEndianMod(bytes, i + 1, m)) % m

BitLength(m) == CHOOSE b \in 1..32 : 2 ^ (b - 1) <= m /\ m < 2 ^ b

ParamsOf(store, k) ==
    CASE k = "spend" -> store.spend_params
      [] k = "receipt" -> store.receipt_params
      [] k = "create_asset" -> store.create_asset_params
      [] k = "mint_asset" -> store.mint_asset_params

KeyOf(store, k) ==
    CASE k = "spend" -> store.spend_verifying_key
      [] k = "receipt" -> store.receipt_verifying_key
      [] k = "create_asset" -> store.create_asset_verifying_key
      [] k = "mint_asset" -> store.mint_asset_verifying_key

Readable(k) == ParametersRead(blobs[k], FALSE).ok

InLoad(t) == pc[t] \in {"load_params", "prepare", "construct"}

\* The preimage of a note, field by field.
Preimage(note) ==
    GH_FIRST_BLOCK \o note.asset_info.name \o note.asset_info.public_address
        \o << note.asset_info.nonce >>

\* The Pedersen hash of a note's preimage, as an affine point.
HashOf(note) ==
    Affine(pedersen_hash(NoteCommitmentPersonalization, FlatMapBits(Preimage(note))))

NoteIds == 1..Len(notes)

(***************************************************************************)
(* Properties                                                              *)
(***************************************************************************)
\* C1: in every store that Sapling::load returned, for each kind k the
\* parameters are the deserialization of blob k, the prepared verifying key
\* is prepare_verifying_key of the vk of those parameters, and no field of
\* kind k holds the parameters or the key of another kind's blob.
C1_KeysFromOwnParameters ==
    \A i \in 1..Len(stores) : \A k \in KindSet :
        /\ ParamsOf(stores[i], k) = ParametersRead(blobs[k], FALSE).value
        /\ KeyOf(stores[i], k) = prepare_verifying_key(ParamsOf(stores[i], k).vk)
        /\ \A j \in KindSet \ {k} :
              /\ ParamsOf(stores[i], k) # ParametersRead(blobs[j], FALSE).value
              /\ KeyOf(stores[i], k) # prepare_verifying_key(ParametersRead(blobs[j], FALSE).value.vk)

C1_Witness == Len(stores) >= 1

\* C2: when one of the four blobs does not deserialize, no call of load gets
\* past its load_params and no store exists; a store, when there is one, has
\* all four parameters and all four keys.
C2_AllOrNothing ==
    /\ (\E k \in KindSet : ~Readable(k)) =>
          /\ stores = << >>
          /\ \A t \in DOMAIN pc : pc[t] \notin {"prepare", "construct"}
    /\ \A t \in DOMAIN pc :
          pc[t] = "load_params" => \A i \in 1..Len(frame[t].params) : Readable(Kinds[i])
    /\ \A t \in DOMAIN pc : pc[t] = "panicked" => frame[t] = NoFrame
    /\ \A i \in 1..Len(stores) :
          /\ DOMAIN stores[i] =
                { "spend_params", "receipt_params", "create_asset_params", "mint_asset_params",
                  "spend_verifying_key", "receipt_verifying_key",
                  "create_asset_verifying_key", "mint_asset_verifying_key" }
          /\ \A k \in KindSet : Readable(k)

\* The last blob is the bad one: the three before it were read, the call
\* panicked, and there is no store.
C2_Witness ==
    /\ ~Readable("mint_asset")
    /\ \A k \in KindSet \ {"mint_asset"} : Readable(k)
    /\ \E t \in DOMAIN pc : pc[t] = "panicked"
    /\ stores = << >>

\* C3 (as claimed): at most one store is ever constructed in the process.
C3_AtMostOneStore == Len(stores) <= 1

\* C3 (amended): every call of load that ran to its end constructed a store
\* of its own, whatever was constructed before, and all the stores are equal.
C3_EveryLoadConstructs ==
    /\ Len(stores) =
          loadCalls - Cardinality({t \in DOMAIN pc : InLoad(t) \/ pc[t] = "panicked"})
    /\ \A i, j \in 1..Len(stores) : stores[i] = stores[j]

C3_Witness == Len(stores) = 2 /\ stores[1] = stores[2]

\* C4: all the calls of commitment_point on a note returned the same scalar,
\* notes with equal asset_info and randomness returned equal scalars, and no
\* step changes a constructed note.
C4_Deterministic ==
    /\ [](\A n \in NoteIds : \A m \in NoteIds :
             (notes[n] = notes[m]) => Cardinality(results[n] \cup results[m]) <= 1)
    /\ [][\A n \in NoteIds : notes'[n] = notes[n]]_vars

\* Two equal notes, each with a returned commitment.
C4_Witness ==
    \E n, m \in NoteIds : n # m /\ notes[n] = notes[m] /\ results[n] # {} /\ results[m] # {}

C6_InjectiveInRandomness ==
    \A n, m \in NoteIds :
        (notes[n].asset_info = notes[m].asset_info /\ notes[n].randomness # notes[m].randomness)
            => results[n] \cap results[m] = {}

C6_Witness ==
    \E n, m \in NoteIds :
        /\ notes[n].asset_info = notes[m].asset_info
        /\ notes[n].randomness # notes[m].randomness
        /\ results[n] # {} /\ results[m] # {}

\* C7: the randomness of a note is the 64-byte buffer drawn for it, read as
\* a little-endian integer and reduced into the field: a canonical element,
\* the same for the same buffer whatever the asset; the buffer has 512 bits,
\* at least twice the bit length of the field.
C7_RandomnessFromBufferOnly ==
    /\ \A n \in NoteIds :
          /\ Len(drawn[n]) = 64
          /\ 8 * Len(drawn[n]) = 512
          /\ 8 * Len(drawn[n]) >= 2 * BitLength(FrModulus)
          /\ notes[n].randomness = LittleEndianMod(drawn[n], 1, FrModulus)
          /\ notes[n].randomness \in Fr
    /\ \A n, m \in NoteIds : drawn[n] = drawn[m] => notes[n].randomness = notes[m].randomness

\* Two notes of different assets made from the same non-zero buffer.
C7_Witness ==
    \E n, m \in NoteIds :
        /\ notes[n].asset_info # notes[m].asset_info
        /\ drawn[n] = drawn[m]
        /\ notes[n].randomness # 0

\* C8: under every interleaving no step changes a constructed note or a
\* constructed store, and every value commitment_point returned is the one a
\* call running alone on that note returns.
C8_NoSharedWrites ==
    [][/\ Len(notes') >= Len(notes)
       /\ \A n \in NoteIds : notes'[n] = notes[n]
       /\ Len(stores') >= Len(stores)
       /\ \A i \in 1..Len(stores) : stores'[i] = stores[i]
       /\ \A n \in 1..Len(notes') :
             IF n \in NoteIds /\ results'[n] = results[n] THEN TRUE
             ELSE results'[n] \subseteq {get_u(Affine(commitment_full_point(notes'[n])))}]_vars

\* Both threads inside commitment_point on the same note, after a store was
\* constructed and the note had already returned a commitment.
C8_Witness ==
    /\ Len(stores) >= 1
    /\ \E n \in NoteIds :
          /\ results[n] # {}
          /\ \A t \in DOMAIN pc : pc[t] = "to_affine" /\ frame[t].note = n

\* C9: the bits handed to the Pedersen hash are the preimage
\* GH_FIRST_BLOCK || name || address || nonce, byte by byte, each byte least
\* significant bit first: bit 8*j + i is bit i of byte j, 8 * len bits in all.
C9_BitsLsbFirst ==
    \A t \in DOMAIN pc :
        pc[t] = "to_affine" =>
            LET P == Preimage(notes[frame[t].note])
                bits == frame[t].bits
            IN  /\ frame[t].plaintext = P
                /\ Len(bits) = 8 * Len(P)
                /\ \A j \in 0..(Len(P) - 1) : \A i \in 0..7 :
                      bits[8 * j + i + 1] = ((P[j + 1] \div (2 ^ i)) % 2 = 1)

\* A call is in progress on a note with a name and a nonce of 1.
C9_Witness ==
    \E t \in DOMAIN pc :
        /\ pc[t] = "to_affine"
        /\ notes[frame[t].note].asset_info.name # << >>
        /\ notes[frame[t].note].asset_info.nonce = 1

\* C10: every value commitment_point returned is one field element, the u
\* coordinate of the affine point H + randomness * G, with H the Pedersen
\* hash of the note's bits and G the randomness generator; with randomness 0
\* it is the u coordinate of H.
C10_BlindedHashU ==
    \A n \in NoteIds :
        LET H == HashOf(notes[n])
            G == Affine(NOTE_COMMITMENT_RANDOMNESS_GENERATOR)
        IN  /\ results[n] \subseteq {EdwardsAdd(H, EdwardsMul(G, notes[n].randomness)).u}
            /\ results[n] \subseteq Fq
            /\ notes[n].randomness = 0 => results[n] \subseteq {H.u}

\* A commitment returned for a note with randomness 0 and one for a note with
\* another randomness.
C10_Witness ==
    /\ \E n \in NoteIds : notes[n].randomness = 0 /\ results[n] # {}
    /\ \E n \in NoteIds : notes[n].randomness # 0 /\ results[n] # {}

====
